---- MODULE Spec2Model ----
(***************************************************************************)
(* Client-side security and session-state module of the admin dashboard:   *)
(* the login RateLimiter (process-wide attempt records keyed by            *)
(* identifier), the handlers of AdminDashboard that use it, the session    *)
(* state machine of initAuth and the product form with its sanitizers.     *)
(* Time is Date.now() in milliseconds.                                     *)
(***************************************************************************)
EXTENDS Integers, Sequences, FiniteSets, TLC

VARIABLES
    attempts,       \* RateLimiter.attempts: identifier -> record (partial map)
    now,            \* Date.now(), milliseconds
    ticks,          \* number of clock advances so far (bounds the run)
    lastCall,       \* the RateLimiter operation that ran last, with its result
    streak,         \* per identifier: length of the current run of back-to-back
                    \* recordAttempt(id, false) calls
    projectId,      \* content of the project-id meta tag, "" when absent
    authMode,       \* AdminDashboard: loading, error, login, not-owner, authenticated
    user,           \* AdminDashboard: the signed-in user's uid, or NoUser
    isOwner,        \* AdminDashboard
    isLocked,       \* AdminDashboard
    lockoutMinutes, \* AdminDashboard
    authError,      \* AdminDashboard: the message shown, [kind, n]
    initDone,       \* whether initAuth has run
    signIns,        \* auth.signInWithEmailAndPassword calls in flight
    signOuts,       \* auth.signOut calls in flight
    authQueue,      \* auth-state notifications not yet delivered to the observer
    verifying,      \* verify-project-owner requests in flight (uid of each)
    localStorage,   \* localStorage: key -> value (partial map)
    stripeLoading,  \* stripeConnect.loading
    stripeChecks,   \* check-connect-status requests in flight
    requests,       \* sign-in, verification and sign-out requests started so far
    form,           \* AdminDashboard: the product draft as typed (strings)
    editing,        \* AdminDashboard: id of the product being edited, or NoProduct
    formError,      \* AdminDashboard: the message of the product form
    storeCall       \* the addProduct or updateProduct call the last step made

dashVars == <<projectId, authMode, user, isOwner, isLocked, lockoutMinutes, authError,
              initDone, signIns, signOuts, authQueue, verifying, localStorage,
              stripeLoading, stripeChecks, requests>>

formVars == <<form, editing, formError, storeCall>>

vars == <<attempts, now, ticks, lastCall, streak,
          projectId, authMode, user, isOwner, isLocked, lockoutMinutes, authError,
          initDone, signIns, signOuts, authQueue, verifying, localStorage,
          stripeLoading, stripeChecks, requests, form, editing, formError, storeCall>>

----------------------------------------------------------------------------
(* Bounds of the model *)

MaxTicks == 2       \* clock advances per behaviour
MaxCount == 6       \* cap on a record's failure count
MaxRequests == 3    \* sign-in, verification and sign-out requests per behaviour
MaxFragments == 3   \* fragments a sanitizer input is put together from

----------------------------------------------------------------------------
(* RateLimiter: policy *)

maxAttempts == 5
lockoutTime == 15 * 60 * 1000

\* identifier = 'login_' + (projectId || 'default')
Identifiers == {"login_default", "login_store1"}

\* steps by which the wall clock advances between events
ClockSteps == {1, lockoutTime - 1}

NoAttempts == [i \in {} |-> 0]

\* a record freshly created by recordAttempt: no lockedUntil property.
\* An absent lockedUntil is modelled as 0, which is as falsy as undefined.
\* firstAttempt (the creation time) is written once and read nowhere in the
\* program, so the record keeps only the two fields that are read.
NewRecord(t) == [count |-> 0, lockedUntil |-> 0]

HasRecord(att, id) == id \in DOMAIN att

Remove(att, id) == [i \in (DOMAIN att) \ {id} |-> att[i]]

Put(att, id, rec) == [i \in (DOMAIN att) \cup {id} |-> IF i = id THEN rec ELSE att[i]]

----------------------------------------------------------------------------
(* RateLimiter.canAttempt: its return value and the attempts it leaves *)

canAttemptMutNoLockCheck(att, id, t) ==
    IF ~HasRecord(att, id) THEN TRUE
    ELSE IF att[id].lockedUntil # 0 /\ t >= att[id].lockedUntil THEN TRUE
    ELSE att[id].count < maxAttempts + 1

canAttempt(att, id, t) ==
    IF ~HasRecord(att, id) THEN TRUE
    ELSE IF att[id].lockedUntil # 0 /\ t < att[id].lockedUntil THEN FALSE
    ELSE IF att[id].lockedUntil # 0 /\ t >= att[id].lockedUntil THEN TRUE
    ELSE att[id].count < maxAttempts

canAttemptStoreMutKeep(att, id, t) == att

canAttemptStore(att, id, t) ==
    IF ~HasRecord(att, id) THEN att
    ELSE IF att[id].lockedUntil # 0 /\ t < att[id].lockedUntil THEN att
    ELSE IF att[id].lockedUntil # 0 /\ t >= att[id].lockedUntil THEN Remove(att, id)
    ELSE att

----------------------------------------------------------------------------
(* RateLimiter.recordAttempt: the attempts it leaves *)

recordAttemptMutNoReset(att, id, success, t) ==
    IF success THEN att
    ELSE
    LET base == IF HasRecord(att, id) THEN att[id] ELSE NewRecord(t)
        c    == base.count + 1
        rec  == [base EXCEPT !.count = c,
                             !.lockedUntil = IF c >= maxAttempts
                                             THEN t + lockoutTime
                                             ELSE base.lockedUntil]
    IN  Put(att, id, rec)

recordAttemptMutLockAt4(att, id, success, t) ==
    IF success THEN Remove(att, id)
    ELSE LET base == IF HasRecord(att, id) THEN att[id] ELSE NewRecord(t)
             c    == base.count + 1
             rec  == [base EXCEPT !.count = c,
                                  !.lockedUntil = IF c >= maxAttempts - 1
                                                  THEN t + lockoutTime
                                                  ELSE base.lockedUntil]
         IN  Put(att, id, rec)

recordAttemptMutKeepsRecord(att, id, success, t) ==
    IF success
    THEN IF HasRecord(att, id) THEN Put(att, id, [att[id] EXCEPT !.count = 0]) ELSE att
    ELSE LET base == IF HasRecord(att, id) THEN att[id] ELSE NewRecord(t)
             c    == base.count + 1
             rec  == [base EXCEPT !.count = c,
                                  !.lockedUntil = IF c >= maxAttempts
                                                  THEN t + lockoutTime
                                                  ELSE base.lockedUntil]
         IN  Put(att, id, rec)

recordAttempt(att, id, success, t) ==
    IF success THEN Remove(att, id)
    ELSE LET base == IF HasRecord(att, id) THEN att[id] ELSE NewRecord(t)
             c    == base.count + 1
             rec  == [base EXCEPT !.count = c,
                                  !.lockedUntil = IF c >= maxAttempts
                                                  THEN t + lockoutTime
                                                  ELSE base.lockedUntil]
         IN  Put(att, id, rec)

----------------------------------------------------------------------------
(* RateLimiter.getRemainingTime and getAttemptsLeft *)

CeilDiv(a, b) == (a + b - 1) \div b

getRemainingTime(att, id, t) ==
    IF ~HasRecord(att, id) THEN 0
    ELSE IF att[id].lockedUntil = 0 THEN 0
    ELSE LET remaining == att[id].lockedUntil - t
         IN  IF remaining > 0 THEN CeilDiv(remaining, 1000 * 60) ELSE 0

Max(a, b) == IF a >= b THEN a ELSE b

Min(a, b) == IF a <= b THEN a ELSE b

\* getAttemptsLeft without Math.max
getAttemptsLeftMutNoFloor(att, id) ==
    IF ~HasRecord(att, id) THEN maxAttempts
    ELSE maxAttempts - att[id].count

getAttemptsLeft(att, id) ==
    IF ~HasRecord(att, id) THEN maxAttempts
    ELSE Max(0, maxAttempts - att[id].count)

----------------------------------------------------------------------------
(* SecurityUtils.detectAttack: strings are sequences of one-character       *)
(* strings; each pattern is a sequence of elements matched with             *)
(* backtracking, as the regular expression is.                              *)

UpperCase == <<"A","B","C","D","E","F","G","H","I","J","K","L","M",
               "N","O","P","Q","R","S","T","U","V","W","X","Y","Z">>
LowerCase == <<"a","b","c","d","e","f","g","h","i","j","k","l","m",
               "n","o","p","q","r","s","t","u","v","w","x","y","z">>
Digits == {"0","1","2","3","4","5","6","7","8","9"}

Range(f) == {f[i] : i \in DOMAIN f}

\* String.prototype.toLowerCase on one character; the /i flag folds case
Lower(c) ==
    IF c \in Range(UpperCase)
    THEN LowerCase[CHOOSE i \in 1..26 : UpperCase[i] = c]
    ELSE c

\* \w and \s of a regular expression
IsWord(c) == c \in Range(UpperCase) \cup Range(LowerCase) \cup Digits \cup {"_"}
IsSpace(c) == c \in {" ", "\t", "\n", "\r"}

Lit(c) == [k |-> "lit", c |-> c]
Lits(cs) == [i \in 1..Len(cs) |-> Lit(cs[i])]
El(k) == [k |-> k, c |-> ""]

\* whether element el accepts character c (elements that consume a run)
Accepts(el, c) ==
    CASE el.k = "ws0" -> IsSpace(c)
      [] el.k = "ws1" -> IsSpace(c)
      [] el.k = "w1"  -> IsWord(c)
      [] el.k = "any0" -> c \notin {"\n", "\r"}
      [] OTHER -> FALSE

MinRun(el) == IF el.k \in {"ws1", "w1"} THEN 1 ELSE 0

RECURSIVE MatchFrom(_, _, _, _)
\* the elements pat[pi..] match s from position si on
MatchFrom(pat, pi, s, si) ==
    IF pi > Len(pat) THEN TRUE
    ELSE LET el == pat[pi] IN
         IF el.k = "lit"
         THEN si <= Len(s) /\ Lower(s[si]) = el.c /\ MatchFrom(pat, pi + 1, s, si + 1)
         ELSE IF el.k = "end"
         THEN si = Len(s) + 1 /\ MatchFrom(pat, pi + 1, s, si)
         ELSE \E n \in MinRun(el)..(Len(s) - si + 1) :
                 /\ \A j \in si..(si + n - 1) : Accepts(el, s[j])
                 /\ MatchFrom(pat, pi + 1, s, si + n)

\* RegExp.prototype.test
Test(pat, s) == \E i \in 1..(Len(s) + 1) : MatchFrom(pat, 1, s, i)

attackPatterns == {
    Lits(<<"<","s","c","r","i","p","t">>),
    Lits(<<"j","a","v","a","s","c","r","i","p","t",":">>),
    Lits(<<"o","n">>) \o <<El("w1"), El("ws0"), Lit("=")>>,
    Lits(<<"u","n","i","o","n">>) \o <<El("ws1")>> \o Lits(<<"s","e","l","e","c","t">>),
    <<Lit(";"), El("ws0")>> \o Lits(<<"d","r","o","p">>) \o <<El("ws1")>>
        \o Lits(<<"t","a","b","l","e">>),
    <<Lit(";"), El("ws0")>> \o Lits(<<"d","e","l","e","t","e">>) \o <<El("ws1")>>
        \o Lits(<<"f","r","o","m">>),
    <<Lit("'"), El("ws0"), Lit("o"), Lit("r"), El("ws1"), Lit("'"), Lit("1"), Lit("'"),
      El("ws0"), Lit("="), El("ws0"), Lit("'"), Lit("1")>>,
    <<Lit("-"), Lit("-"), El("ws0"), El("end")>>,
    <<Lit("/"), Lit("*"), El("any0"), Lit("*"), Lit("/")>>,
    <<Lit("$"), Lit("{"), El("any0"), Lit("}")>>,
    <<Lit("{"), Lit("{"), El("any0"), Lit("}"), Lit("}")>>
}

detectAttack(input) ==
    IF input = <<>> THEN FALSE
    ELSE \E pat \in attackPatterns : Test(pat, input)

\* what the login form's fields may hold when it is submitted: both are
\* required, and the email field accepts only a well-formed address
Emails == { <<"a","@","b",".","c","o">>,
            <<"$","{","a","}","@","b",".","c","o">> }
Passwords == { <<"p","w","1">>,
               <<"x","'"," ","O","R"," ","'","1","'","=","'","1">> }

----------------------------------------------------------------------------
(* SecurityUtils: the sanitizers of the product form *)

\* the length limits of the sanitizers (String.prototype.slice(0, n))
NameMaxLength == 200
DescriptionMaxLength == 5000
PriceMaxLength == 10
UrlMaxLength == 2000
CategoryMaxLength == 100
TextMaxLength == 1000
EmailMaxLength == 254

SetMin(S) == CHOOSE x \in S : \A y \in S : x <= y
SetMax(S) == CHOOSE x \in S : \A y \in S : x >= y

\* String.prototype.slice(0, n)
Slice(s, n) == SubSeq(s, 1, Min(n, Len(s)))

\* String.prototype.trim
Trim(s) ==
    LET kept == {i \in 1..Len(s) : ~IsSpace(s[i])}
    IN IF kept = {} THEN <<>> ELSE SubSeq(s, SetMin(kept), SetMax(kept))

\* the characters of the class [<>\"\'\x60;\\]; the backquote (\x60), which a
\* string of this language cannot hold, is written "backquote"
DangerousChars == {"<", ">", "\"", "'", "backquote", ";", "\\"}
IsSafeChar(c) == c \notin DangerousChars

\* replace(/[<>\"\'\x60;\\]/g, '')
StripDangerous(s) == SelectSeq(s, IsSafeChar)

RECURSIVE Splice(_, _, _)
\* replace(re, '') with the g flag, from position c on: lens[p] is the length
\* of the match of re that starts at p, 0 when there is none; the leftmost
\* match is removed and the scan resumes behind it
Splice(s, lens, c) ==
    LET starts == {p \in c..Len(s) : lens[p] > 0}
    IN IF starts = {} THEN SubSeq(s, c, Len(s))
       ELSE LET p == SetMin(starts)
            IN SubSeq(s, c, p - 1) \o Splice(s, lens, p + lens[p])

\* the length of the match at p of the literal lit (lower case) under /i
LiteralAt(s, p, lit) ==
    IF /\ p + Len(lit) - 1 <= Len(s)
       /\ \A i \in 1..Len(lit) : Lower(s[p + i - 1]) = lit[i]
    THEN Len(lit) ELSE 0

\* the length of the match at p of /on\w+=/i: \w+ takes the whole run of
\* word characters, and the character behind the run has to be "="
HandlerAt(s, p) ==
    IF /\ p + 3 <= Len(s)
       /\ Lower(s[p]) = "o"
       /\ Lower(s[p + 1]) = "n"
       /\ IsWord(s[p + 2])
    THEN LET stop == SetMin({j \in (p + 3)..Len(s) : ~IsWord(s[j])} \cup {Len(s) + 1})
         IN IF stop <= Len(s) /\ s[stop] = "=" THEN stop - p + 1 ELSE 0
    ELSE 0

\* the length of the match at p of /<tag\b[^<]*(?:(?!<\/tag>)<[^<]*)*<\/tag>/i:
\* the opening literal at a word boundary, up to the first closing literal
BlockAt(s, p, open, close) ==
    IF /\ LiteralAt(s, p, open) > 0
       /\ p + Len(open) <= Len(s)
       /\ ~IsWord(s[p + Len(open)])
    THEN LET ends == {q \in (p + Len(open))..Len(s) : LiteralAt(s, q, close) > 0}
         IN IF ends = {} THEN 0 ELSE SetMin(ends) + Len(close) - p
    ELSE 0

RemoveLiteral(s, lit) == Splice(s, [p \in 1..Len(s) |-> LiteralAt(s, p, lit)], 1)
RemoveHandlers(s) == Splice(s, [p \in 1..Len(s) |-> HandlerAt(s, p)], 1)
RemoveBlocks(s, open, close) ==
    Splice(s, [p \in 1..Len(s) |-> BlockAt(s, p, open, close)], 1)

JavascriptScheme == <<"j","a","v","a","s","c","r","i","p","t",":">>
DataScheme == <<"d","a","t","a",":">>
DataHtmlScheme == <<"d","a","t","a",":","t","e","x","t","/","h","t","m","l">>
ScriptOpen == <<"<","s","c","r","i","p","t">>
ScriptClose == <<"<","/","s","c","r","i","p","t",">">>
IframeOpen == <<"<","i","f","r","a","m","e">>
IframeClose == <<"<","/","i","f","r","a","m","e",">">>

sanitizeName(input) ==
    IF input = <<>> THEN <<>>
    ELSE Slice(Trim(RemoveHandlers(RemoveLiteral(StripDangerous(input), JavascriptScheme))),
               NameMaxLength)

sanitizeDescription(input) ==
    IF input = <<>> THEN <<>>
    ELSE LET noScript == RemoveBlocks(input, ScriptOpen, ScriptClose)
             noIframe == RemoveBlocks(noScript, IframeOpen, IframeClose)
             noScheme == RemoveLiteral(noIframe, JavascriptScheme)
             noHandle == RemoveHandlers(noScheme)
             noData   == RemoveLiteral(noHandle, DataHtmlScheme)
         IN Slice(Trim(noData), DescriptionMaxLength)

sanitizeCategory(input) ==
    IF input = <<>> THEN <<>>
    ELSE Slice(Trim(StripDangerous(input)), CategoryMaxLength)

IsPriceChar(c) == c \in Digits \cup {"."}
IsNotDot(c) == c # "."

\* parts.length > 2 is two dots or more; that branch returns without slice
sanitizePrice(input) ==
    IF input = <<>> THEN <<>>
    ELSE LET cleaned == SelectSeq(input, IsPriceChar)
             dots    == {i \in 1..Len(cleaned) : cleaned[i] = "."}
         IN IF Cardinality(dots) > 1
            THEN LET d == SetMin(dots)
                 IN SubSeq(cleaned, 1, d)
                      \o SelectSeq(SubSeq(cleaned, d + 1, Len(cleaned)), IsNotDot)
            ELSE Slice(cleaned, PriceMaxLength)

\* /^https?:\/\//i
HasHttpScheme(s) ==
    \/ LiteralAt(s, 1, <<"h","t","t","p",":","/","/">>) > 0
    \/ LiteralAt(s, 1, <<"h","t","t","p","s",":","/","/">>) > 0

\* /^(javascript|data|vbscript):/i
HasScriptScheme(s) ==
    \/ LiteralAt(s, 1, JavascriptScheme) > 0
    \/ LiteralAt(s, 1, DataScheme) > 0
    \/ LiteralAt(s, 1, <<"v","b","s","c","r","i","p","t",":">>) > 0

sanitizeUrl(input) ==
    IF input = <<>> THEN <<>>
    ELSE LET trimmed == Trim(input)
         IN IF trimmed # <<>> /\ ~HasHttpScheme(trimmed) THEN <<>>
            ELSE IF HasScriptScheme(trimmed) THEN <<>>
            ELSE Slice(trimmed, UrlMaxLength)

IsNotAngle(c) == c \notin {"<", ">"}

sanitizeText(input) ==
    IF input = <<>> THEN <<>>
    ELSE LET noAngle  == SelectSeq(input, IsNotAngle)
             noScheme == RemoveLiteral(noAngle, JavascriptScheme)
             noHandle == RemoveHandlers(noScheme)
             noData   == RemoveLiteral(noHandle, DataScheme)
         IN Slice(Trim(noData), TextMaxLength)

\* String.prototype.toLowerCase
ToLowerCase(s) == [i \in 1..Len(s) |-> Lower(s[i])]

sanitizeEmail(input) ==
    IF input = <<>> THEN <<>>
    ELSE Slice(Trim(StripDangerous(ToLowerCase(input))), EmailMaxLength)

\* the sanitizers of SecurityUtils by name
Sanitizers == {"sanitizeText", "sanitizeName", "sanitizeDescription", "sanitizePrice",
               "sanitizeUrl", "sanitizeEmail", "sanitizeCategory"}

Sanitize(name, input) ==
    CASE name = "sanitizeText" -> sanitizeText(input)
      [] name = "sanitizeName" -> sanitizeName(input)
      [] name = "sanitizeDescription" -> sanitizeDescription(input)
      [] name = "sanitizePrice" -> sanitizePrice(input)
      [] name = "sanitizeUrl" -> sanitizeUrl(input)
      [] name = "sanitizeEmail" -> sanitizeEmail(input)
      [] name = "sanitizeCategory" -> sanitizeCategory(input)

----------------------------------------------------------------------------
(* parseFloat on the digits and dots sanitizePrice returns *)

DigitChars == <<"0","1","2","3","4","5","6","7","8","9">>
DigitValue(c) == (CHOOSE i \in 1..10 : DigitChars[i] = c) - 1

\* a < b for digit sequences of one length
DigitsLess(a, b) ==
    \E i \in 1..Len(a) : /\ DigitValue(a[i]) < DigitValue(b[i])
                         /\ \A j \in 1..(i - 1) : a[j] = b[j]

StripLeadingZeros(ds) ==
    LET nz == {i \in 1..Len(ds) : ds[i] # "0"}
    IN IF nz = {} THEN <<>> ELSE SubSeq(ds, SetMin(nz), Len(ds))

StripTrailingZeros(ds) ==
    LET nz == {i \in 1..Len(ds) : ds[i] # "0"}
    IN IF nz = {} THEN <<>> ELSE SubSeq(ds, 1, SetMax(nz))

\* A Number value: NaN, Infinity, or the decimal int.frac (int without
\* leading zeros, frac without trailing zeros; 0 is both empty). The rounding
\* of the digits to 53 bits is not modelled: no check reads more than the
\* sign and the finiteness of a price.
NaN == [kind |-> "nan", int |-> <<>>, frac |-> <<>>]
Infinity == [kind |-> "inf", int |-> <<>>, frac |-> <<>>]
Zero == [kind |-> "num", int |-> <<>>, frac |-> <<>>]

\* the integer digits of 2^1024 - 2^970, from which on a decimal rounds to
\* Infinity, up to its 21st digit; the number has 309 digits
OverflowDigits == <<"1","7","9","7","6","9","3","1","3","4","8","6","2","3","1","5","8","0","7","9","3">>
\* the digits of 2^-1075, up to which a decimal rounds to 0, behind 323 zeros
UnderflowDigits == <<"2","4","7","0","3","2","8","2","2","9","2","0","6","2","3","2","7","2","0","8","8">>

Overflows(int) ==
    \/ Len(int) > 309
    \/ /\ Len(int) = 309
       /\ ~DigitsLess(SubSeq(int, 1, Len(OverflowDigits)), OverflowDigits)

Underflows(int, frac) ==
    /\ int = <<>>
    /\ frac # <<>>
    /\ LET zeros == Len(frac) - Len(StripLeadingZeros(frac))
           lead  == SubSeq(StripLeadingZeros(frac) \o [i \in 1..Len(UnderflowDigits) |-> "0"],
                           1, Len(UnderflowDigits))
       IN \/ zeros > 323
          \/ zeros = 323 /\ ~DigitsLess(UnderflowDigits, lead)

\* the first index from i on that holds no digit, Len(t) + 1 when there is none
DigitRunEnd(t, i) == SetMin({j \in i..Len(t) : t[j] \notin Digits} \cup {Len(t) + 1})

\* parseFloat reads the longest prefix digits [. digits] and gives NaN when
\* that prefix holds no digit
parseFloat(t) ==
    LET intEnd  == DigitRunEnd(t, 1)
        hasDot  == intEnd <= Len(t) /\ t[intEnd] = "."
        fracEnd == IF hasDot THEN DigitRunEnd(t, intEnd + 1) ELSE intEnd
        int     == StripLeadingZeros(SubSeq(t, 1, intEnd - 1))
        frac    == IF hasDot THEN StripTrailingZeros(SubSeq(t, intEnd + 1, fracEnd - 1))
                   ELSE <<>>
    IN IF intEnd = 1 /\ fracEnd <= intEnd + 1 THEN NaN
       ELSE IF Overflows(int) THEN Infinity
       ELSE IF Underflows(int, frac) THEN Zero
       ELSE [kind |-> "num", int |-> int, frac |-> frac]

\* x || 0 for a Number x: NaN and 0 are falsy
OrZero(x) == IF x.kind = "nan" \/ x = Zero THEN Zero ELSE x

isNaN(x) == x.kind = "nan"
\* x <= 0 for the Numbers parseFloat gives here, none of which is negative
NotAboveZero(x) == x = Zero

----------------------------------------------------------------------------
(* The RateLimiter driven by an arbitrary caller *)

\* what the record of id looked like when an operation was called
Snapshot(att, id) ==
    IF HasRecord(att, id)
    THEN [has |-> TRUE, count |-> att[id].count, lockedUntil |-> att[id].lockedUntil]
    ELSE [has |-> FALSE, count |-> 0, lockedUntil |-> 0]

\* op: the operation; ok: a boolean result; val: a numeric result;
\* pre: the record before the call; run: the streak before the call;
\* arg: what the operation was called with: the email and password of a
\* sign-in, the draft of a submission; for a verifier response its outcome,
\* its user and the number of requests issued after its own and in flight
CallWith(op, id, ok, val, arg) ==
    [op |-> op, id |-> id, ok |-> ok, val |-> val,
     pre |-> Snapshot(attempts, id), run |-> streak[id], arg |-> arg]

Call(op, id, ok, val) == CallWith(op, id, ok, val, <<>>)

RLInit ==
    /\ attempts = NoAttempts
    /\ now = 0
    /\ ticks = 0
    /\ streak = [i \in Identifiers |-> 0]
    /\ lastCall = [op |-> "none", id |-> "login_default", ok |-> TRUE, val |-> 0,
                   pre |-> [has |-> FALSE, count |-> 0, lockedUntil |-> 0], run |-> 0,
                   arg |-> <<>>]

\* values of the project-id meta tag: absent, or a store
ProjectIds == {"", "store1"}

\* const identifier = 'login_' + (projectId || 'default')
Identifier(pid) == IF pid = "" THEN "login_default" ELSE "login_store1"

NoUser == "null"
Users == {"u1"}

NoError == [kind |-> "none", n |-> 0]
Message(kind, n) == [kind |-> kind, n |-> n]

NoStorage == [k \in {} |-> ""]

\* the useState initial values of AdminDashboard and an idle provider
DashInit ==
    /\ projectId \in ProjectIds
    /\ authMode = "loading"
    /\ user = NoUser
    /\ isOwner = FALSE
    /\ isLocked = FALSE
    /\ lockoutMinutes = 0
    /\ authError = NoError
    /\ initDone = FALSE
    /\ signIns = 0
    /\ signOuts = 0
    /\ authQueue = <<>>
    /\ verifying = <<>>
    /\ localStorage = NoStorage
    /\ stripeLoading = TRUE
    /\ stripeChecks = 0
    /\ requests = 0

\* useState(null) for editing
NoProduct == "null"
ProductIds == {"p1"}

\* the draft of useState for form, and of the reset after a submission; image,
\* inStock and driveFileId are copied to the record as they are and are read
\* by no check, so the draft keeps the five fields that are sanitized
EmptyForm == [name |-> <<>>, description |-> <<>>, price |-> <<>>, category |-> <<>>,
              externalPaymentUrl |-> <<>>]

NoFormError == "none"
NoStoreCall == [op |-> "none", id |-> NoProduct, data |-> EmptyForm]

FormInit ==
    /\ form = EmptyForm
    /\ editing = NoProduct
    /\ formError = NoFormError
    /\ storeCall = NoStoreCall

Init == RLInit /\ DashInit /\ FormInit

InitRL == RLInit /\ DashInit /\ FormInit /\ projectId = "store1"

\* lastCall after a step that calls no RateLimiter operation
NoCall == [op |-> "none", id |-> "login_default", ok |-> TRUE, val |-> 0,
           pre |-> Snapshot(NoAttempts, "login_default"), run |-> 0, arg |-> <<>>]

Tick(d) ==
    /\ ticks < MaxTicks
    /\ now' = now + d
    /\ ticks' = ticks + 1
    /\ lastCall' = NoCall
    /\ UNCHANGED <<attempts, streak>>
    /\ UNCHANGED dashVars
    /\ UNCHANGED formVars

CallCanAttempt(id) ==
    /\ attempts' = canAttemptStore(attempts, id, now)
    /\ lastCall' = Call("canAttempt", id, canAttempt(attempts, id, now), 0)
    /\ streak' = [streak EXCEPT ![id] = 0]
    /\ UNCHANGED <<now, ticks>>
    /\ UNCHANGED dashVars
    /\ UNCHANGED formVars

CallRecordAttempt(id, success) ==
    /\ IF ~success /\ HasRecord(attempts, id) THEN attempts[id].count < MaxCount ELSE TRUE
    /\ attempts' = recordAttempt(attempts, id, success, now)
    /\ lastCall' = Call(IF success THEN "recordSuccess" ELSE "recordFailure", id, TRUE, 0)
    /\ streak' = [streak EXCEPT ![id] = IF success THEN 0 ELSE Min(streak[id] + 1, maxAttempts)]
    /\ UNCHANGED <<now, ticks>>
    /\ UNCHANGED dashVars
    /\ UNCHANGED formVars

CallGetRemainingTime(id) ==
    /\ lastCall' = Call("getRemainingTime", id, TRUE, getRemainingTime(attempts, id, now))
    /\ UNCHANGED <<attempts, now, ticks, streak>>
    /\ UNCHANGED dashVars
    /\ UNCHANGED formVars

CallGetAttemptsLeft(id) ==
    /\ lastCall' = Call("getAttemptsLeft", id, TRUE, getAttemptsLeft(attempts, id))
    /\ UNCHANGED <<attempts, now, ticks, streak>>
    /\ UNCHANGED dashVars
    /\ UNCHANGED formVars

NextRL ==
    \/ \E d \in ClockSteps : Tick(d)
    \/ \E id \in Identifiers : CallCanAttempt(id)
    \/ \E id \in Identifiers, success \in BOOLEAN : CallRecordAttempt(id, success)
    \/ \E id \in Identifiers : CallGetRemainingTime(id)
    \/ \E id \in Identifiers : CallGetAttemptsLeft(id)

SpecRL == InitRL /\ [][NextRL]_vars

----------------------------------------------------------------------------
(* AdminDashboard: authentication, sign-in and lockout handlers *)

RemoveAt(q, i) == [j \in 1..(Len(q) - 1) |-> IF j < i THEN q[j] ELSE q[j + 1]]

SetItem(ls, k, v) == [x \in (DOMAIN ls) \cup {k} |-> IF x = k THEN v ELSE ls[x]]

RemoveItem(ls, k) == [x \in (DOMAIN ls) \ {k} |-> ls[x]]

\* error codes with which the provider rejects a sign-in
CredentialCodes == {"auth/user-not-found", "auth/wrong-password", "auth/invalid-credential"}
ErrorCodes == {"auth/wrong-password", "auth/invalid-email", "auth/too-many-requests",
               "auth/network-request-failed"}

\* the state of the RateLimiter and the clock, which most handlers leave alone
limiterVars == <<attempts, now, ticks, streak>>
\* the state the sign-in handlers leave alone
sessionVars == <<projectId, authMode, user, isOwner, initDone, signOuts, authQueue,
                 verifying, localStorage, stripeLoading, stripeChecks>>

\* initAuth subscribing the observer although loadFirebase failed
InitAuthFailedMutSubscribes ==
    /\ ~initDone
    /\ initDone' = TRUE
    /\ authMode' = "error"
    /\ authError' = Message("initFailed", 0)
    /\ authQueue' = Append(authQueue, NoUser)
    /\ lastCall' = Call("initAuth.failed", Identifier(projectId), FALSE, 0)
    /\ UNCHANGED <<projectId, user, isOwner, isLocked, lockoutMinutes, signIns, signOuts,
                   verifying, localStorage, stripeLoading, stripeChecks, requests>>
    /\ UNCHANGED limiterVars
    /\ UNCHANGED formVars

\* initAuth when loadFirebase fails
InitAuthFailed ==
    /\ ~initDone
    /\ initDone' = TRUE
    /\ authMode' = "error"
    /\ authError' = Message("initFailed", 0)
    /\ lastCall' = Call("initAuth.failed", Identifier(projectId), FALSE, 0)
    /\ UNCHANGED <<projectId, user, isOwner, isLocked, lockoutMinutes, signIns, signOuts,
                   authQueue, verifying, localStorage, stripeLoading, stripeChecks,
                   requests>>
    /\ UNCHANGED limiterVars
    /\ UNCHANGED formVars

\* initAuth when loadFirebase succeeds: the observer is subscribed and the
\* provider notifies it of the current user (u), or of none
InitAuthLoaded(u) ==
    /\ ~initDone
    /\ initDone' = TRUE
    /\ authQueue' = Append(authQueue, u)
    /\ lastCall' = CallWith("initAuth.loaded", Identifier(projectId), TRUE, 0, <<u>>)
    /\ UNCHANGED <<projectId, authMode, user, isOwner, isLocked, lockoutMinutes, authError,
                   signIns, signOuts, verifying, localStorage, stripeLoading, stripeChecks,
                   requests>>
    /\ UNCHANGED limiterVars
    /\ UNCHANGED formVars

\* the observer leaving authMode alone when no user is signed in
ObserverMutKeepsMode(firebaseUser) ==
    /\ IF firebaseUser # NoUser
       THEN /\ user' = firebaseUser
            /\ verifying' = Append(verifying, firebaseUser)
            /\ UNCHANGED <<isOwner, authMode>>
       ELSE /\ user' = NoUser
            /\ isOwner' = FALSE
            /\ UNCHANGED <<authMode, verifying>>
    /\ authQueue' = Tail(authQueue)
    /\ lastCall' = CallWith("onAuthStateChanged", Identifier(projectId),
                            firebaseUser # NoUser, 0, <<firebaseUser>>)
    /\ UNCHANGED <<projectId, isLocked, lockoutMinutes, authError, initDone, signIns,
                   signOuts, localStorage, stripeLoading, stripeChecks>>
    /\ UNCHANGED limiterVars
    /\ UNCHANGED formVars

\* the body of the onAuthStateChanged observer up to its await of the verifier
Observer(firebaseUser) ==
    /\ IF firebaseUser # NoUser
       THEN /\ user' = firebaseUser
            /\ verifying' = Append(verifying, firebaseUser)
            /\ UNCHANGED <<isOwner, authMode>>
       ELSE /\ user' = NoUser
            /\ isOwner' = FALSE
            /\ authMode' = "login"
            /\ UNCHANGED verifying
    /\ authQueue' = Tail(authQueue)
    /\ lastCall' = CallWith("onAuthStateChanged", Identifier(projectId),
                            firebaseUser # NoUser, 0, <<firebaseUser>>)
    /\ UNCHANGED <<projectId, isLocked, lockoutMinutes, authError, initDone, signIns,
                   signOuts, localStorage, stripeLoading, stripeChecks>>
    /\ UNCHANGED limiterVars
    /\ UNCHANGED formVars

\* the provider notifies the observer; a verifier request counts against the
\* request budget
AuthStateChanged ==
    /\ authQueue # <<>>
    /\ IF Head(authQueue) # NoUser
       THEN requests < MaxRequests /\ requests' = requests + 1
       ELSE UNCHANGED requests
    /\ Observer(Head(authQueue))

\* the provider notifies the observer, every notified user being verified:
\* the verifier requests are bounded by the sign-ins that cause them
AuthStateChangedAlways ==
    /\ authQueue # <<>>
    /\ UNCHANGED requests
    /\ Observer(Head(authQueue))

\* checkStripeConnect up to its await: the number of requests in flight after it
checkStripeConnect(pid, inFlight) == IF pid = "" THEN inFlight ELSE inFlight + 1

\* the observer failing closed when the verifier request throws
VerifyResolvedMutFailClosed(i, outcome) ==
    /\ i \in 1..Len(verifying)
    /\ LET uid == verifying[i] IN
       CASE outcome = "owner" ->
              /\ isOwner' = TRUE
              /\ authMode' = "authenticated"
              /\ localStorage' = SetItem(SetItem(localStorage, "userId", uid),
                                         "projectId", projectId)
              /\ stripeChecks' = checkStripeConnect(projectId, stripeChecks)
         [] outcome = "notOwner" ->
              /\ isOwner' = FALSE
              /\ authMode' = "not-owner"
              /\ UNCHANGED <<localStorage, stripeChecks>>
         [] outcome = "throws" ->
              /\ isOwner' = FALSE
              /\ authMode' = "not-owner"
              /\ UNCHANGED <<localStorage, stripeChecks>>
    /\ verifying' = RemoveAt(verifying, i)
    /\ lastCall' = CallWith("verify.resolved", Identifier(projectId), outcome = "owner",
                            stripeChecks, <<outcome, verifying[i], Len(verifying) - i>>)
    /\ UNCHANGED <<projectId, user, isLocked, lockoutMinutes, authError, initDone, signIns,
                   signOuts, authQueue, stripeLoading, requests>>
    /\ UNCHANGED limiterVars
    /\ UNCHANGED formVars

\* the observer treating every answer of the verifier as a confirmation
VerifyResolvedMutDenyOpen(i, outcome) ==
    /\ i \in 1..Len(verifying)
    /\ LET uid == verifying[i] IN
       CASE outcome = "owner" ->
              /\ isOwner' = TRUE
              /\ authMode' = "authenticated"
              /\ localStorage' = SetItem(SetItem(localStorage, "userId", uid),
                                         "projectId", projectId)
              /\ stripeChecks' = checkStripeConnect(projectId, stripeChecks)
         [] outcome = "notOwner" ->
              /\ isOwner' = TRUE
              /\ authMode' = "authenticated"
              /\ localStorage' = SetItem(SetItem(localStorage, "userId", uid),
                                         "projectId", projectId)
              /\ stripeChecks' = checkStripeConnect(projectId, stripeChecks)
         [] outcome = "throws" ->
              /\ isOwner' = TRUE
              /\ authMode' = "authenticated"
              /\ localStorage' = SetItem(localStorage, "userId", uid)
              /\ stripeChecks' = checkStripeConnect(projectId, stripeChecks)
    /\ verifying' = RemoveAt(verifying, i)
    /\ lastCall' = CallWith("verify.resolved", Identifier(projectId), outcome = "owner",
                            stripeChecks, <<outcome, verifying[i], Len(verifying) - i>>)
    /\ UNCHANGED <<projectId, user, isLocked, lockoutMinutes, authError, initDone, signIns,
                   signOuts, authQueue, stripeLoading, requests>>
    /\ UNCHANGED limiterVars
    /\ UNCHANGED formVars

\* the observer with a generation tag: a response is applied only when no
\* request has been issued after its own
VerifyResolvedMutDropsStale(i, outcome) ==
    /\ i \in 1..Len(verifying)
    /\ LET uid == verifying[i] IN
       CASE i < Len(verifying) ->
              UNCHANGED <<isOwner, authMode, localStorage, stripeChecks>>
         [] i = Len(verifying) /\ outcome = "owner" ->
              /\ isOwner' = TRUE
              /\ authMode' = "authenticated"
              /\ localStorage' = SetItem(SetItem(localStorage, "userId", uid),
                                         "projectId", projectId)
              /\ stripeChecks' = checkStripeConnect(projectId, stripeChecks)
         [] i = Len(verifying) /\ outcome = "notOwner" ->
              /\ isOwner' = FALSE
              /\ authMode' = "not-owner"
              /\ UNCHANGED <<localStorage, stripeChecks>>
         [] i = Len(verifying) /\ outcome = "throws" ->
              /\ isOwner' = TRUE
              /\ authMode' = "authenticated"
              /\ localStorage' = SetItem(localStorage, "userId", uid)
              /\ stripeChecks' = checkStripeConnect(projectId, stripeChecks)
    /\ verifying' = RemoveAt(verifying, i)
    /\ lastCall' = CallWith("verify.resolved", Identifier(projectId), outcome = "owner",
                            stripeChecks, <<outcome, verifying[i], Len(verifying) - i>>)
    /\ UNCHANGED <<projectId, user, isLocked, lockoutMinutes, authError, initDone, signIns,
                   signOuts, authQueue, stripeLoading, requests>>
    /\ UNCHANGED limiterVars
    /\ UNCHANGED formVars

\* the observer after its await: the verify-project-owner request of
\* verifying[i] answers isOwner === true, answers otherwise, or throws
VerifyResolved(i, outcome) ==
    /\ i \in 1..Len(verifying)
    /\ LET uid == verifying[i] IN
       CASE outcome = "owner" ->
              /\ isOwner' = TRUE
              /\ authMode' = "authenticated"
              /\ localStorage' = SetItem(SetItem(localStorage, "userId", uid),
                                         "projectId", projectId)
              /\ stripeChecks' = checkStripeConnect(projectId, stripeChecks)
         [] outcome = "notOwner" ->
              /\ isOwner' = FALSE
              /\ authMode' = "not-owner"
              /\ UNCHANGED <<localStorage, stripeChecks>>
         [] outcome = "throws" ->
              /\ isOwner' = TRUE
              /\ authMode' = "authenticated"
              /\ localStorage' = SetItem(localStorage, "userId", uid)
              /\ stripeChecks' = checkStripeConnect(projectId, stripeChecks)
    /\ verifying' = RemoveAt(verifying, i)
    /\ lastCall' = CallWith("verify.resolved", Identifier(projectId), outcome = "owner",
                            stripeChecks, <<outcome, verifying[i], Len(verifying) - i>>)
    /\ UNCHANGED <<projectId, user, isLocked, lockoutMinutes, authError, initDone, signIns,
                   signOuts, authQueue, stripeLoading, requests>>
    /\ UNCHANGED limiterVars
    /\ UNCHANGED formVars

\* checkStripeConnect after its await: every outcome clears loading
StripeResolved ==
    /\ stripeChecks > 0
    /\ stripeChecks' = stripeChecks - 1
    /\ stripeLoading' = FALSE
    /\ lastCall' = Call("stripe.resolved", Identifier(projectId), TRUE, 0)
    /\ UNCHANGED <<projectId, authMode, user, isOwner, isLocked, lockoutMinutes, authError,
                   initDone, signIns, signOuts, authQueue, verifying, localStorage,
                   requests>>
    /\ UNCHANGED limiterVars
    /\ UNCHANGED formVars

\* checkLockout: on mount and on every tick of the 10-second interval
CheckLockout ==
    /\ LET identifier == Identifier(projectId)
           allowed    == canAttempt(attempts, identifier, now)
           checked    == canAttemptStore(attempts, identifier, now)
       IN
       /\ attempts' = checked
       /\ IF ~allowed
          THEN /\ isLocked' = TRUE
               /\ lockoutMinutes' = getRemainingTime(checked, identifier, now)
          ELSE UNCHANGED <<isLocked, lockoutMinutes>>
       /\ lastCall' = Call("checkLockout", identifier, allowed, signIns)
    /\ UNCHANGED <<authError, signIns, requests>>
    /\ UNCHANGED sessionVars
    /\ UNCHANGED <<now, ticks, streak>>
    /\ UNCHANGED formVars

\* the login form is rendered, so that it can be submitted
LoginFormShown == authMode = "login" /\ ~isLocked

\* handleLogin without its rate-limit check
HandleLoginMutNoGate(email, password) ==
    /\ LoginFormShown
    /\ LET identifier == Identifier(projectId)
           allowed    == canAttempt(attempts, identifier, now)
       IN
       IF detectAttack(email) \/ detectAttack(password)
       THEN /\ attempts' = recordAttempt(attempts, identifier, FALSE, now)
            /\ authError' = Message("invalidInput", 0)
            /\ lastCall' = CallWith("login.attack", identifier, allowed, signIns,
                                     <<email, password>>)
            /\ UNCHANGED <<isLocked, lockoutMinutes, signIns, requests>>
       ELSE /\ requests < MaxRequests
            /\ requests' = requests + 1
            /\ signIns' = signIns + 1
            /\ authError' = NoError
            /\ lastCall' = CallWith("login.delegated", identifier, allowed, signIns,
                                     <<email, password>>)
            /\ UNCHANGED <<attempts, isLocked, lockoutMinutes>>
    /\ UNCHANGED sessionVars
    /\ UNCHANGED <<now, ticks, streak>>
    /\ UNCHANGED formVars

\* handleLogin with the attack check moved ahead of the rate-limit check
HandleLoginMutAttackFirst(email, password) ==
    /\ LoginFormShown
    /\ LET identifier == Identifier(projectId)
           allowed    == canAttempt(attempts, identifier, now)
           checked    == canAttemptStore(attempts, identifier, now)
       IN
       IF detectAttack(email) \/ detectAttack(password)
       THEN /\ attempts' = recordAttempt(attempts, identifier, FALSE, now)
            /\ authError' = Message("invalidInput", 0)
            /\ lastCall' = CallWith("login.attack", identifier, allowed, signIns,
                                     <<email, password>>)
            /\ UNCHANGED <<isLocked, lockoutMinutes, signIns, requests>>
       ELSE IF ~allowed
       THEN /\ attempts' = checked
            /\ isLocked' = TRUE
            /\ lockoutMinutes' = getRemainingTime(checked, identifier, now)
            /\ authError' = Message("locked", getRemainingTime(checked, identifier, now))
            /\ lastCall' = CallWith("login.locked", identifier, allowed, signIns,
                                     <<email, password>>)
            /\ UNCHANGED <<signIns, requests>>
       ELSE /\ requests < MaxRequests
            /\ requests' = requests + 1
            /\ attempts' = checked
            /\ signIns' = signIns + 1
            /\ authError' = NoError
            /\ lastCall' = CallWith("login.delegated", identifier, allowed, signIns,
                                     <<email, password>>)
            /\ UNCHANGED <<isLocked, lockoutMinutes>>
    /\ UNCHANGED sessionVars
    /\ UNCHANGED <<now, ticks, streak>>
    /\ UNCHANGED formVars

\* handleLogin up to its await, with the fields holding email and password
HandleLogin(email, password) ==
    /\ LoginFormShown
    /\ LET identifier == Identifier(projectId)
           allowed    == canAttempt(attempts, identifier, now)
           checked    == canAttemptStore(attempts, identifier, now)
       IN
       IF ~allowed
       THEN /\ attempts' = checked
            /\ isLocked' = TRUE
            /\ lockoutMinutes' = getRemainingTime(checked, identifier, now)
            /\ authError' = Message("locked", getRemainingTime(checked, identifier, now))
            /\ lastCall' = CallWith("login.locked", identifier, allowed, signIns,
                                     <<email, password>>)
            /\ UNCHANGED <<signIns, requests>>
       ELSE IF detectAttack(email) \/ detectAttack(password)
       THEN /\ attempts' = recordAttempt(checked, identifier, FALSE, now)
            /\ authError' = Message("invalidInput", 0)
            /\ lastCall' = CallWith("login.attack", identifier, allowed, signIns,
                                     <<email, password>>)
            /\ UNCHANGED <<isLocked, lockoutMinutes, signIns, requests>>
       ELSE /\ requests < MaxRequests
            /\ requests' = requests + 1
            /\ attempts' = checked
            /\ signIns' = signIns + 1
            /\ authError' = NoError
            /\ lastCall' = CallWith("login.delegated", identifier, allowed, signIns,
                                     <<email, password>>)
            /\ UNCHANGED <<isLocked, lockoutMinutes>>
    /\ UNCHANGED sessionVars
    /\ UNCHANGED <<now, ticks, streak>>
    /\ UNCHANGED formVars

\* handleLogin after its await, the provider having signed u in
SignInSucceeded(u) ==
    /\ signIns > 0
    /\ signIns' = signIns - 1
    /\ authQueue' = Append(authQueue, u)
    /\ attempts' = recordAttempt(attempts, Identifier(projectId), TRUE, now)
    /\ lastCall' = Call("signIn.succeeded", Identifier(projectId), TRUE, signIns)
    /\ UNCHANGED <<projectId, authMode, user, isOwner, isLocked, lockoutMinutes, authError,
                   initDone, signOuts, verifying, localStorage, stripeLoading, stripeChecks,
                   requests>>
    /\ UNCHANGED <<now, ticks, streak>>
    /\ UNCHANGED formVars

\* the catch block of handleLogin without its recordAttempt call
SignInFailedMutNoRecord(code) ==
    /\ signIns > 0
    /\ signIns' = signIns - 1
    /\ LET identifier   == Identifier(projectId)
           attemptsLeft == getAttemptsLeft(attempts, identifier)
       IN
       /\ UNCHANGED attempts
       /\ authError' = Message("loginFailed", 0)
       /\ isLocked' = (isLocked \/ attemptsLeft = 0)
       /\ lockoutMinutes' = IF attemptsLeft = 0 THEN 15 ELSE lockoutMinutes
       /\ lastCall' = Call(code, identifier, FALSE, signIns)
    /\ UNCHANGED requests
    /\ UNCHANGED sessionVars
    /\ UNCHANGED <<now, ticks, streak>>
    /\ UNCHANGED formVars

\* handleLogin after its await, the provider having rejected with code
SignInFailed(code) ==
    /\ signIns > 0
    /\ signIns' = signIns - 1
    /\ LET identifier   == Identifier(projectId)
           recorded     == recordAttempt(attempts, identifier, FALSE, now)
           attemptsLeft == getAttemptsLeft(recorded, identifier)
       IN
       /\ attempts' = recorded
       /\ authError' = IF code \in CredentialCodes
                       THEN Message("attemptsRemaining", attemptsLeft)
                       ELSE IF code = "auth/invalid-email"
                       THEN Message("invalidEmail", 0)
                       ELSE IF code = "auth/too-many-requests"
                       THEN Message("tooManyRequests", 0)
                       ELSE Message("loginFailed", 0)
       /\ isLocked' = (isLocked \/ code = "auth/too-many-requests" \/ attemptsLeft = 0)
       /\ lockoutMinutes' = IF code = "auth/too-many-requests" \/ attemptsLeft = 0
                            THEN 15 ELSE lockoutMinutes
       /\ lastCall' = Call(code, identifier, FALSE, signIns)
    /\ UNCHANGED requests
    /\ UNCHANGED sessionVars
    /\ UNCHANGED <<now, ticks, streak>>
    /\ UNCHANGED formVars

\* handleLogout up to its await: offered in not-owner and in the dashboard
HandleLogout ==
    /\ authMode \in {"not-owner", "authenticated"}
    /\ requests < MaxRequests
    /\ requests' = requests + 1
    /\ signOuts' = signOuts + 1
    /\ lastCall' = Call("handleLogout", Identifier(projectId), TRUE, 0)
    /\ UNCHANGED <<projectId, authMode, user, isOwner, isLocked, lockoutMinutes, authError,
                   initDone, signIns, authQueue, verifying, localStorage, stripeLoading,
                   stripeChecks>>
    /\ UNCHANGED limiterVars
    /\ UNCHANGED formVars

\* handleLogout after its await: signOut done (the observer is notified) or failed
SignOutResolved(done) ==
    /\ signOuts > 0
    /\ signOuts' = signOuts - 1
    /\ IF done
       THEN /\ authQueue' = Append(authQueue, NoUser)
            /\ localStorage' = RemoveItem(RemoveItem(localStorage, "userId"), "projectId")
       ELSE UNCHANGED <<authQueue, localStorage>>
    /\ lastCall' = Call("signOut.resolved", Identifier(projectId), done, 0)
    /\ UNCHANGED <<projectId, authMode, user, isOwner, isLocked, lockoutMinutes, authError,
                   initDone, signIns, verifying, stripeLoading, stripeChecks, requests>>
    /\ UNCHANGED limiterVars
    /\ UNCHANGED formVars

Next ==
    \/ \E d \in ClockSteps : Tick(d)
    \/ InitAuthFailed
    \/ \E u \in Users \cup {NoUser} : InitAuthLoaded(u)
    \/ AuthStateChanged
    \/ \E i \in 1..MaxRequests, outcome \in {"owner", "notOwner", "throws"} :
          VerifyResolved(i, outcome)
    \/ StripeResolved
    \/ CheckLockout
    \/ \E email \in Emails, password \in Passwords : HandleLogin(email, password)
    \/ \E u \in Users : SignInSucceeded(u)
    \/ \E code \in ErrorCodes : SignInFailed(code)
    \/ HandleLogout
    \/ \E done \in BOOLEAN : SignOutResolved(done)

Spec == Init /\ [][Next]_vars

\* The dashboard with its payment status requests answered: a
\* check-connect-status request in flight resolves or throws in the end.
SpecStripe == Spec /\ WF_vars(StripeResolved)

\* The session alone: the clock stands still (it is read by the RateLimiter
\* only) and every notified user is verified, so that two verifications can
\* be in flight after two sign-ins.
NextSession ==
    \/ InitAuthFailed
    \/ \E u \in Users \cup {NoUser} : InitAuthLoaded(u)
    \/ AuthStateChangedAlways
    \/ \E i \in 1..(MaxRequests + 1), outcome \in {"owner", "notOwner", "throws"} :
          VerifyResolved(i, outcome)
    \/ StripeResolved
    \/ CheckLockout
    \/ \E email \in Emails, password \in Passwords : HandleLogin(email, password)
    \/ \E u \in Users : SignInSucceeded(u)
    \/ \E code \in ErrorCodes : SignInFailed(code)
    \/ HandleLogout
    \/ \E done \in BOOLEAN : SignOutResolved(done)

SpecSession == Init /\ [][NextSession]_vars

----------------------------------------------------------------------------
(* The product form of the dashboard *)

\* n times the character c
Repeat(c, n) == [i \in 1..n |-> c]

\* a draft whose name, description and category are one over their limits
LongDraft ==
    [name |-> Repeat("a", NameMaxLength + 1),
     description |-> Repeat("d", DescriptionMaxLength + 1),
     price |-> <<"5">>,
     category |-> Repeat("c", CategoryMaxLength + 1),
     externalPaymentUrl |-> <<"h","t","t","p","s",":","/","/","x">>]

\* a draft whose price has 310 integer digits and two dots
HugePriceDraft ==
    [name |-> <<"S","h","o","e">>, description |-> <<>>,
     price |-> Repeat("9", 310) \o <<".","0",".","0">>,
     category |-> <<>>, externalPaymentUrl |-> <<>>]

\* what the fields of the product form may hold when it is submitted; the
\* handler reads the form state, which the attributes of the input elements
\* (min, max, maxLength) do not bound
Drafts == {
    [name |-> <<"S","h","o","e">>, description |-> <<>>, price |-> <<"1","9",".","9","9">>,
       category |-> <<>>, externalPaymentUrl |-> <<>>],
    [name |-> <<"<","b",">","S","h","o","e","<","/","b",">">>, description |-> <<>>, price |-> <<"-","5">>,
       category |-> <<>>, externalPaymentUrl |-> <<>>],
    [name |-> <<"S","h","o","e">>, description |-> <<>>, price |-> <<"1","9",".","9","9">>,
       category |-> <<>>, externalPaymentUrl |-> <<"j","a","v","a","s","c","r","i","p","t",":","x">>],
    [name |-> <<"S","h","o","e">>, description |-> <<>>, price |-> <<"0">>,
       category |-> <<>>, externalPaymentUrl |-> <<>>],
    [name |-> <<"S","h","o","e">>, description |-> <<>>, price |-> <<"a","b","c">>,
       category |-> <<>>, externalPaymentUrl |-> <<>>],
    [name |-> <<"S","h","o","e">>, description |-> <<>>, price |-> <<>>,
       category |-> <<>>, externalPaymentUrl |-> <<>>],
    [name |-> <<>>, description |-> <<>>, price |-> <<"1","9",".","9","9">>,
       category |-> <<>>, externalPaymentUrl |-> <<>>],
    [name |-> <<"<",">">>, description |-> <<>>, price |-> <<"1","9",".","9","9">>,
       category |-> <<>>, externalPaymentUrl |-> <<>>],
    [name |-> <<"<","s","c","r","i","p","t",">">>, description |-> <<>>, price |-> <<"1","9",".","9","9">>,
       category |-> <<>>, externalPaymentUrl |-> <<>>],
    [name |-> <<"S","h","o","e">>, description |-> <<"<","i","f","r","a","m","e",">","x","<","/","i","f","r","a","m","e",">","o","k">>, price |-> <<"1","2",".","3","4",".","5","6">>,
       category |-> <<"a",";","b">>, externalPaymentUrl |-> <<" ","h","t","t","p","s",":","/","/","x",".","c","o"," ">>],
    [name |-> <<"S","h","o","e">>, description |-> <<>>, price |-> <<"1","2","3","4","5","6","7","8","9","0","1","2","3","4","5">>,
       category |-> <<>>, externalPaymentUrl |-> <<"H","T","T","P",":","/","/","x",".","c","o">>],
    [name |-> <<"S","h","o","e">>, description |-> <<>>, price |-> <<"5">>,
       category |-> <<>>, externalPaymentUrl |-> <<" "," "," ">>],
    [name |-> <<>>, description |-> <<>>, price |-> <<"0">>,
       category |-> <<>>, externalPaymentUrl |-> <<"f","t","p",":","/","/","x">>],
    [name |-> <<"S","h","o","e">>, description |-> <<"x","'"," ","o","r"," ","'","1","'","=","'","1">>, price |-> <<"-","5">>,
       category |-> <<>>, externalPaymentUrl |-> <<"f","t","p",":","/","/","x">>],
    [name |-> <<"S","h","o","e">>, description |-> <<>>, price |-> <<"5">>,
       category |-> <<"{","{","x","}","}">>, externalPaymentUrl |-> <<>>],
    LongDraft,
    HugePriceDraft }

\* the sanitizedData of handleSubmit
SanitizedData(f) ==
    [name |-> sanitizeName(f.name),
     description |-> sanitizeDescription(f.description),
     price |-> OrZero(parseFloat(sanitizePrice(f.price))),
     category |-> sanitizeCategory(f.category),
     externalPaymentUrl |-> sanitizeUrl(f.externalPaymentUrl)]

\* the checks of handleSubmit with the price checked ahead of the name
RejectionMutPriceFirst(f) ==
    LET data == SanitizedData(f)
    IN IF detectAttack(f.name) \/ detectAttack(f.description) \/ detectAttack(f.category)
       THEN "invalidInput"
       ELSE IF NotAboveZero(data.price) \/ isNaN(data.price)
       THEN "invalidPrice"
       ELSE IF data.name = <<>> \/ Len(data.name) < 1
       THEN "nameRequired"
       ELSE IF f.externalPaymentUrl # <<>> /\ data.externalPaymentUrl = <<>>
       THEN "invalidPaymentUrl"
       ELSE NoFormError

\* the checks of handleSubmit in their order: the message set, "none" when
\* the draft passes them all
Rejection(f) ==
    LET data == SanitizedData(f)
    IN IF detectAttack(f.name) \/ detectAttack(f.description) \/ detectAttack(f.category)
       THEN "invalidInput"
       ELSE IF data.name = <<>> \/ Len(data.name) < 1
       THEN "nameRequired"
       ELSE IF NotAboveZero(data.price) \/ isNaN(data.price)
       THEN "invalidPrice"
       ELSE IF f.externalPaymentUrl # <<>> /\ data.externalPaymentUrl = <<>>
       THEN "invalidPaymentUrl"
       ELSE NoFormError

\* the product form is rendered in the dashboard only
FormShown == authMode = "authenticated"

\* the onChange handlers of the fields: setForm, here up to the draft d
SetForm(d) ==
    /\ FormShown
    /\ form' = d
    /\ storeCall' = NoStoreCall
    /\ lastCall' = NoCall
    /\ UNCHANGED <<editing, formError>>
    /\ UNCHANGED <<attempts, now, ticks, streak>>
    /\ UNCHANGED dashVars

\* startEdit of the product id, whose fields read d
startEdit(id, d) ==
    /\ FormShown
    /\ editing' = id
    /\ form' = d
    /\ formError' = NoFormError
    /\ storeCall' = NoStoreCall
    /\ lastCall' = NoCall
    /\ UNCHANGED <<attempts, now, ticks, streak>>
    /\ UNCHANGED dashVars

\* handleSubmit clearing the draft when it rejects it
handleSubmitMutClearsDraft ==
    /\ FormShown
    /\ LET reason == Rejection(form)
       IN IF reason # NoFormError
          THEN /\ formError' = reason
               /\ storeCall' = NoStoreCall
               /\ form' = EmptyForm
               /\ UNCHANGED editing
          ELSE /\ storeCall' = [op |-> IF editing # NoProduct THEN "updateProduct"
                                        ELSE "addProduct",
                                id |-> editing,
                                data |-> SanitizedData(form)]
               /\ form' = EmptyForm
               /\ editing' = NoProduct
               /\ formError' = NoFormError
    /\ lastCall' = CallWith("handleSubmit", Identifier(projectId),
                            Rejection(form) = NoFormError, 0, <<form>>)
    /\ UNCHANGED <<attempts, now, ticks, streak>>
    /\ UNCHANGED dashVars

handleSubmit ==
    /\ FormShown
    /\ LET reason == Rejection(form)
       IN IF reason # NoFormError
          THEN /\ formError' = reason
               /\ storeCall' = NoStoreCall
               /\ UNCHANGED <<form, editing>>
          ELSE /\ storeCall' = [op |-> IF editing # NoProduct THEN "updateProduct"
                                        ELSE "addProduct",
                                id |-> editing,
                                data |-> SanitizedData(form)]
               /\ form' = EmptyForm
               /\ editing' = NoProduct
               /\ formError' = NoFormError
    /\ lastCall' = CallWith("handleSubmit", Identifier(projectId),
                            Rejection(form) = NoFormError, 0, <<form>>)
    /\ UNCHANGED <<attempts, now, ticks, streak>>
    /\ UNCHANGED dashVars

\* the dashboard as it stands once the owner of store1 is signed in and the
\* payment status is loaded
InitForm ==
    /\ RLInit
    /\ FormInit
    /\ projectId = "store1"
    /\ authMode = "authenticated"
    /\ user = "u1"
    /\ isOwner = TRUE
    /\ isLocked = FALSE
    /\ lockoutMinutes = 0
    /\ authError = NoError
    /\ initDone = TRUE
    /\ signIns = 0
    /\ signOuts = 0
    /\ authQueue = <<>>
    /\ verifying = <<>>
    /\ localStorage = SetItem(SetItem(NoStorage, "userId", "u1"), "projectId", "store1")
    /\ stripeLoading = FALSE
    /\ stripeChecks = 0
    /\ requests = 1

NextForm ==
    \/ \E d \in Drafts : SetForm(d)
    \/ \E id \in ProductIds, d \in Drafts : startEdit(id, d)
    \/ handleSubmit

SpecForm == InitForm /\ [][NextForm]_vars

\* the drafts within the maxLength attributes of the fields
ShortDrafts == Drafts \ {LongDraft, HugePriceDraft}

\* Both forms: the owner works on the product form, signs out, and the login
\* form is submitted. The clock stands still.
NextInput ==
    \/ \E d \in ShortDrafts : SetForm(d)
    \/ \E id \in ProductIds, d \in ShortDrafts : startEdit(id, d)
    \/ handleSubmit
    \/ HandleLogout
    \/ \E done \in BOOLEAN : SignOutResolved(done)
    \/ AuthStateChanged
    \/ \E email \in Emails, password \in Passwords : HandleLogin(email, password)
    \/ \E code \in ErrorCodes : SignInFailed(code)

SpecInput == InitForm /\ [][NextInput]_vars

----------------------------------------------------------------------------
(* The sanitizers applied to inputs put together from fragments *)

\* pieces of the patterns the sanitizers remove, and of prices and URLs
Fragments == {
    <<"j","a">>,
    <<"j","a","v","a","s","c","r","i","p","t",":">>,
    <<"v","a","s","c","r","i","p","t",":">>,
    <<"o","n">>,
    <<"x","=">>,
    <<"<","b",">">>,
    <<" ">>,
    <<".">>,
    <<"1","2","3","4","5","6","7","8","9","0">>,
    <<"-","5">>,
    <<"H","T","T","P",":","/","/">> }

RECURSIVE Words(_)
\* the inputs made of n fragments
Words(n) == IF n = 0 THEN {<<>>}
            ELSE {w \o f : w \in Words(n - 1), f \in Fragments}

SanitizerInputs == UNION {Words(n) : n \in 0..MaxFragments}

\* an input is at hand
InitSanitize ==
    /\ attempts = NoAttempts
    /\ now = 0
    /\ ticks = 0
    /\ streak = [i \in Identifiers |-> 0]
    /\ \E x \in SanitizerInputs : lastCall = [NoCall EXCEPT !.op = "input", !.arg = <<x>>]
    /\ DashInit
    /\ projectId = "store1"
    /\ FormInit

\* the sanitizer name is applied to the input: lastCall.arg holds the input
\* and what the sanitizer returned
CallSanitizer(name) ==
    /\ lastCall.op = "input"
    /\ lastCall' = [lastCall EXCEPT !.op = name,
                                    !.arg = <<lastCall.arg[1], Sanitize(name, lastCall.arg[1])>>]
    /\ UNCHANGED <<attempts, now, ticks, streak>>
    /\ UNCHANGED dashVars
    /\ UNCHANGED formVars

NextSanitize == \E name \in Sanitizers : CallSanitizer(name)

SpecSanitize == InitSanitize /\ [][NextSanitize]_vars

----------------------------------------------------------------------------
(* Claims about the RateLimiter, checked under SpecRL *)

\* the record the last call found was under a lockout that had not expired
PreLocked == lastCall.pre.has /\ lastCall.pre.lockedUntil # 0 /\ now < lastCall.pre.lockedUntil

\* the record the last call found was under a lockout that had expired
PreExpired == lastCall.pre.has /\ lastCall.pre.lockedUntil # 0 /\ now >= lastCall.pre.lockedUntil

\* C1: whenever canAttempt(id) is called while the record of id has lockedUntil
\* set and now < lockedUntil, it returns false.
C1_LockedCannotAttempt ==
    (lastCall.op = "canAttempt" /\ PreLocked) => ~lastCall.ok

C1_Witness ==
    /\ lastCall.op = "canAttempt"
    /\ PreLocked
    /\ ~lastCall.ok
    /\ now = lastCall.pre.lockedUntil - 1

\* C2: canAttempt(id) returns true when there is no record; true when a lockout
\* has expired, and then the record is deleted; true when the record has
\* count < maxAttempts; false in every other case.
C2_CanAttemptCases ==
    lastCall.op = "canAttempt" =>
        /\ lastCall.ok <=> \/ ~lastCall.pre.has
                           \/ PreExpired
                           \/ lastCall.pre.count < maxAttempts
        /\ PreExpired => ~HasRecord(attempts, lastCall.id)
        /\ ~PreExpired => Snapshot(attempts, lastCall.id) = lastCall.pre

C2_Witness ==
    /\ lastCall.op = "canAttempt"
    /\ PreExpired
    /\ lastCall.ok
    /\ ~HasRecord(attempts, lastCall.id)

\* C3: recordAttempt(id, false) creates the record if it is absent, increases
\* count by exactly one, and sets lockedUntil = now + 15 minutes exactly when
\* the count has reached maxAttempts; below maxAttempts no lockedUntil is set.
C3_RecordFailure ==
    lastCall.op = "recordFailure" =>
        /\ HasRecord(attempts, lastCall.id)
        /\ attempts[lastCall.id].count = lastCall.pre.count + 1
        /\ attempts[lastCall.id].count >= maxAttempts
              <=> attempts[lastCall.id].lockedUntil = now + lockoutTime
        /\ attempts[lastCall.id].count < maxAttempts
              => attempts[lastCall.id].lockedUntil = 0

C3_Witness ==
    /\ lastCall.op = "recordFailure"
    /\ now > 0
    /\ lastCall.pre.count = maxAttempts - 1
    /\ attempts[lastCall.id].count = maxAttempts
    /\ attempts[lastCall.id].lockedUntil = now + lockoutTime

\* C4: right after 5 consecutive recordAttempt(id, false) calls canAttempt(id)
\* is false and getAttemptsLeft(id) is 0; right after a subsequent
\* recordAttempt(id, true), canAttempt(id) is true and getAttemptsLeft(id) is 5.
C4_FiveFailuresThenSuccess ==
    /\ (lastCall.op = "recordFailure" /\ streak[lastCall.id] = maxAttempts) =>
            /\ ~canAttempt(attempts, lastCall.id, now)
            /\ getAttemptsLeft(attempts, lastCall.id) = 0
    /\ (lastCall.op = "recordSuccess" /\ lastCall.run = maxAttempts) =>
            /\ canAttempt(attempts, lastCall.id, now)
            /\ getAttemptsLeft(attempts, lastCall.id) = maxAttempts

C4_Witness ==
    /\ lastCall.op = "recordSuccess"
    /\ lastCall.run = maxAttempts
    /\ lastCall.pre.count >= maxAttempts
    /\ ~HasRecord(attempts, lastCall.id)

\* C5: the first canAttempt(id) or recordAttempt(id, ...) called after the
\* lockout of id has expired resets the expired record, so the failures counted
\* before the lockout no longer count against id.
C5_ExpiryResetsOnNextCall ==
    (lastCall.op \in {"canAttempt", "recordSuccess", "recordFailure"} /\ PreExpired) =>
        /\ getAttemptsLeft(attempts, lastCall.id) >= maxAttempts - 1
        /\ canAttempt(attempts, lastCall.id, now)

----------------------------------------------------------------------------
(* Claims about the sign-in handlers of AdminDashboard, checked under Spec *)

LoginOps == {"login.locked", "login.attack", "login.delegated"}

\* RateLimiter.attempts as the last handler found it, for its identifier
PreAttempts ==
    IF lastCall.pre.has
    THEN [i \in {lastCall.id} |->
             [count |-> lastCall.pre.count, lockedUntil |-> lastCall.pre.lockedUntil]]
    ELSE NoAttempts

\* the failures counted against the identifier when the last handler ran,
\* an expired lockout having been reset by its canAttempt call
PreCounted == IF PreExpired /\ lastCall.op \in LoginOps THEN 0 ELSE lastCall.pre.count

\* detectAttack fired on the email or the password the form was submitted with
AttackSubmitted ==
    /\ lastCall.op \in LoginOps
    /\ detectAttack(lastCall.arg[1]) \/ detectAttack(lastCall.arg[2])

\* C6: once the login is shown as locked, a lockout poll that runs after the
\* lockout has expired leaves the session unlocked (isLocked false).
C6_PollObservesLockoutEnd ==
    (lastCall.op = "checkLockout" /\ PreExpired) => ~isLocked

\* C7: no provider sign-in is started at a moment when canAttempt(identifier)
\* is false, and a sign-in submitted at such a moment stays in login, shows the
\* remaining-minutes message and marks the session locked.
C7_LockedSignInNotDelegated ==
    [][ /\ signIns' > signIns => canAttempt(attempts, Identifier(projectId), now)
        /\ (lastCall'.op \in LoginOps /\ ~canAttempt(attempts, Identifier(projectId), now))
             => /\ lastCall'.op = "login.locked"
                /\ signIns' = signIns
                /\ authMode' = "login"
                /\ isLocked'
                /\ authError' = Message("locked",
                       getRemainingTime(attempts, Identifier(projectId), now))
      ]_vars

C7_Witness ==
    /\ lastCall.op = "login.locked"
    /\ ~canAttempt(PreAttempts, lastCall.id, now)
    /\ signIns > 0
    /\ authMode = "login"
    /\ authError = Message("locked", 15)

\* C8 as stated: whenever detectAttack is true on the submitted email or
\* password, exactly one failed attempt is recorded, the state stays login with
\* the invalid-input message, and the provider is not called.
C8_AttackAlwaysRecorded ==
    AttackSubmitted =>
        /\ HasRecord(attempts, lastCall.id)
        /\ attempts[lastCall.id].count = PreCounted + 1
        /\ authMode = "login"
        /\ authError = Message("invalidInput", 0)
        /\ signIns = lastCall.val

\* C8 as amended: the same, for a submission made while canAttempt(identifier)
\* is true; a submission made while it is false records nothing and shows the
\* lockout message instead.
C8_AttackRecordedWhenAllowed ==
    AttackSubmitted =>
        IF canAttempt(PreAttempts, lastCall.id, now)
        THEN /\ HasRecord(attempts, lastCall.id)
             /\ attempts[lastCall.id].count = PreCounted + 1
             /\ authMode = "login"
             /\ authError = Message("invalidInput", 0)
             /\ signIns = lastCall.val
        ELSE /\ Snapshot(attempts, lastCall.id) = lastCall.pre
             /\ authMode = "login"
             /\ authError.kind = "locked"
             /\ signIns = lastCall.val

C8_Witness ==
    /\ AttackSubmitted
    /\ lastCall.op = "login.attack"
    /\ PreExpired
    /\ attempts[lastCall.id].count = 1
    /\ authError = Message("invalidInput", 0)

\* C9: every failed provider sign-in records exactly one failed attempt, and
\* when no attempts are left the session is locked (isLocked, 15 minutes) and
\* the identifier is rate-limited.
C9_FailureRecordedAndEscalates ==
    lastCall.op \in ErrorCodes =>
        /\ HasRecord(attempts, lastCall.id)
        /\ attempts[lastCall.id].count = lastCall.pre.count + 1
        /\ getAttemptsLeft(attempts, lastCall.id) = 0
             => /\ isLocked
                /\ lockoutMinutes = 15
                /\ ~canAttempt(attempts, lastCall.id, now)

C9_Witness ==
    /\ lastCall.op = "auth/wrong-password"
    /\ lastCall.pre.count = maxAttempts - 1
    /\ getAttemptsLeft(attempts, lastCall.id) = 0
    /\ isLocked
    /\ authError = Message("attemptsRemaining", 0)

\* C10: when the provider rejects a sign-in with too-many-requests, the
\* identifier is locked for 15 minutes from that moment, whatever its failure
\* count: canAttempt(identifier) is false.
C10_TooManyRequestsLocksIdentifier ==
    lastCall.op = "auth/too-many-requests" =>
        /\ ~canAttempt(attempts, lastCall.id, now)
        /\ getRemainingTime(attempts, lastCall.id, now) = 15

----------------------------------------------------------------------------
(* Claims about the session: authMode, isOwner and local storage *)

\* the last step applied the outcome of a verify-project-owner request
VerifyApplied(outcome) ==
    lastCall.op = "verify.resolved" /\ lastCall.arg[1] = outcome

\* the last step delivered the provider's notification that nobody is signed in
NotifiedNone == lastCall.op = "onAuthStateChanged" /\ ~lastCall.ok

HasItem(store, key) == key \in DOMAIN store

\* C11: when the verify-project-owner request fails (network or parse error)
\* for a user the provider delivered, the session fails open: authMode
\* becomes authenticated with isOwner true, neither not-owner nor error.
C11_VerifierFailureFailsOpen ==
    VerifyApplied("throws") => authMode = "authenticated" /\ isOwner

C11_Witness ==
    /\ VerifyApplied("throws")
    /\ authMode = "authenticated"
    /\ isOwner
    /\ user = lastCall.arg[2]

\* C12: when the verifier answers, authMode becomes authenticated only if the
\* answer confirms ownership (isOwner === true) and not-owner with isOwner
\* false for every other answer; a denial never yields authenticated.
C12_AnswerDecidesOwnership ==
    /\ VerifyApplied("owner") => authMode = "authenticated" /\ isOwner
    /\ VerifyApplied("notOwner") => authMode = "not-owner" /\ ~isOwner

C12_Witness ==
    /\ VerifyApplied("notOwner")
    /\ authMode = "not-owner"
    /\ ~isOwner
    /\ user # NoUser

\* C13: every step into authenticated, by whichever path, stores both userId
\* and projectId in local storage and calls checkStripeConnect.
C13_AuthenticatedStoresBothKeys ==
    lastCall.op = "verify.resolved" /\ authMode = "authenticated" =>
        /\ HasItem(localStorage, "userId")
        /\ localStorage["userId"] = lastCall.arg[2]
        /\ HasItem(localStorage, "projectId")
        /\ localStorage["projectId"] = projectId
        /\ stripeChecks = checkStripeConnect(projectId, lastCall.val)

\* C14: once a sign-out has taken effect (signOut has resolved and the
\* observer has been told that nobody is signed in), authMode is login and
\* neither userId nor projectId is in local storage.
C14_SignOutClearsSession ==
    NotifiedNone /\ signOuts = 0 /\ authQueue = <<>> =>
        /\ authMode = "login"
        /\ ~HasItem(localStorage, "userId")
        /\ ~HasItem(localStorage, "projectId")

\* C15: the only step out of not-owner is the sign-out to login: not-owner is
\* never followed directly by authenticated, loading or error.
C15_NotOwnerOnlyToLogin ==
    [][authMode = "not-owner" => authMode' \in {"not-owner", "login"}]_vars

\* C16: error is terminal: once authMode is error, no event (provider
\* notification, sign-in, sign-out, lockout poll, clock) changes it.
C16_ErrorIsTerminal ==
    [][authMode = "error" => authMode' = "error"]_vars

C16_Witness ==
    /\ authMode = "error"
    /\ lastCall.op = "checkLockout"
    /\ now > 0

\* the steps of C17: authMode turns error exactly in the step in which
\* loadFirebase fails; a successful initAuth leaves loading and has the
\* observer notified; the notification that nobody is signed in gives login
InitAuthStep ==
    /\ (authMode # "error" /\ authMode' = "error")
         <=> (authMode = "loading" /\ lastCall'.op = "initAuth.failed" /\ ~initDone)
    /\ (~initDone /\ initDone' /\ lastCall'.op = "initAuth.loaded")
         => authMode' = "loading" /\ Len(authQueue') = 1
    /\ (authQueue # <<>> /\ Head(authQueue) = NoUser /\ authQueue' = Tail(authQueue))
         => authMode' = "login"

\* C17: the initial authMode is loading; it is left for error exactly when the
\* provider fails to initialize; otherwise the observer is subscribed and, when
\* the provider reports that nobody is signed in, authMode becomes login.
C17_LoadingThenErrorOrLogin ==
    /\ authMode = "loading"
    /\ [][InitAuthStep]_vars

C17_Witness ==
    /\ NotifiedNone
    /\ authMode = "login"
    /\ requests = 0
    /\ user = NoUser

\* C18: while a verify-project-owner request is in flight after a successful
\* sign-in, authMode is not login (the session has left login for a pending
\* state).
C18_NotLoginWhileVerifying ==
    verifying # <<>> => authMode # "login"

----------------------------------------------------------------------------
(* Claims about the product form, checked under SpecForm *)

\* the last step was a submission of the product form; the draft submitted
Submitted == lastCall.op = "handleSubmit"
SubmittedDraft == lastCall.arg[1]

\* the text t is an unsigned decimal: digits with at most one dot
IsDecimal(t) ==
    /\ \E i \in 1..Len(t) : t[i] \in Digits
    /\ \A i \in 1..Len(t) : IsPriceChar(t[i])
    /\ Cardinality({i \in 1..Len(t) : t[i] = "."}) <= 1

\* the price typed is a negative number
IsNegativePrice(t) == t # <<>> /\ Head(t) = "-" /\ IsDecimal(Tail(t))

\* the price x is a finite number greater than 0
IsFinitePositive(x) == x.kind = "num" /\ x # Zero

\* the price of draft f, as typed or as sanitized, is no finite number above 0
HasBadPrice(f) ==
    \/ IsNegativePrice(f.price)
    \/ ~IsFinitePositive(SanitizedData(f).price)

\* C19: a draft whose price is not a finite number greater than 0 (the
\* negative price "-5", for one) is never passed to addProduct or
\* updateProduct, and when it passes the attack and name checks it is
\* rejected with the invalid-price message.
C19_BadPriceRejected ==
    Submitted /\ HasBadPrice(SubmittedDraft) =>
        /\ storeCall = NoStoreCall
        /\ Rejection(SubmittedDraft) \notin {"invalidInput", "nameRequired"}
             => formError = "invalidPrice"

\* C20: every record passed to addProduct or updateProduct has a non-empty
\* name of at most 200 characters, a finite price above 0, an
\* externalPaymentUrl that is empty or begins with http:// or https://, a
\* description of at most 5000 characters and a category of at most 100.
C20_StoredRecordIsValid ==
    storeCall.op \in {"addProduct", "updateProduct"} =>
        LET data == storeCall.data
        IN /\ data.name # <<>>
           /\ Len(data.name) <= NameMaxLength
           /\ IsFinitePositive(data.price)
           /\ data.externalPaymentUrl = <<>> \/ HasHttpScheme(data.externalPaymentUrl)
           /\ Len(data.description) <= DescriptionMaxLength
           /\ Len(data.category) <= CategoryMaxLength

\* the checks the draft f fails, each taken alone
FailsAttackCheck(f) ==
    detectAttack(f.name) \/ detectAttack(f.description) \/ detectAttack(f.category)
FailsNameCheck(f) == sanitizeName(f.name) = <<>>
FailsPriceCheck(f) ==
    LET price == OrZero(parseFloat(sanitizePrice(f.price)))
    IN price = Zero \/ price.kind = "nan"
FailsUrlCheck(f) == f.externalPaymentUrl # <<>> /\ sanitizeUrl(f.externalPaymentUrl) = <<>>

----------------------------------------------------------------------------
(* Further claims about the RateLimiter, checked under SpecRL *)

\* what getAttemptsLeft owes for the record the last call found
PreAttemptsLeft ==
    IF ~lastCall.pre.has THEN 5
    ELSE IF lastCall.pre.count >= 5 THEN 0
    ELSE 5 - lastCall.pre.count

\* C22: with k failures and no success getAttemptsLeft gives max(0, 5 - k), 5
\* without a record: every failure takes one attempt off, down to 0. With 4
\* failures it gives 1 and one more failure locks the identifier, upon which
\* getRemainingTime gives 15; getRemainingTime gives a whole number of
\* minutes in 1..15 under a lockout and 0 for an identifier not locked.
C22_AttemptsLeftAndRemainingTime ==
    /\ lastCall.op = "getAttemptsLeft" => lastCall.val = PreAttemptsLeft
    /\ lastCall.op = "recordFailure" =>
         /\ getAttemptsLeft(attempts, lastCall.id) = Max(0, PreAttemptsLeft - 1)
         /\ PreAttemptsLeft = 1 =>
              /\ ~canAttempt(attempts, lastCall.id, now)
              /\ getRemainingTime(attempts, lastCall.id, now) = 15
    /\ lastCall.op = "getRemainingTime" =>
         IF PreLocked
         THEN /\ lastCall.val \in 1..15
              /\ (lastCall.val - 1) * 60000 < lastCall.pre.lockedUntil - now
              /\ lastCall.pre.lockedUntil - now <= lastCall.val * 60000
         ELSE lastCall.val = 0

C22_Witness ==
    /\ lastCall.op = "getRemainingTime"
    /\ PreLocked
    /\ lastCall.pre.count = maxAttempts
    /\ now > 0
    /\ lastCall.val = 15
    /\ getAttemptsLeft(attempts, lastCall.id) = 0

----------------------------------------------------------------------------
(* Claims about the sanitizers, checked under SpecSanitize *)

\* the last step applied a sanitizer: its input and what it returned
Sanitized == lastCall.op \in Sanitizers
SanitizerInput == lastCall.arg[1]
SanitizerOutput == lastCall.arg[2]

\* C23: every sanitizer is idempotent: sanitizing what a sanitizer returned
\* returns it unchanged.
C23_SanitizersIdempotent ==
    Sanitized => Sanitize(lastCall.op, SanitizerOutput) = SanitizerOutput

\* the digits of t before its first dot, a dot if t has one, and the digits
\* behind it
CollapsedDots(t) ==
    LET digits == SelectSeq(t, IsNotDot)
        dots   == {i \in 1..Len(t) : t[i] = "."}
    IN IF dots = {} THEN digits
       ELSE SubSeq(digits, 1, SetMin(dots) - 1) \o <<".">>
              \o SubSeq(digits, SetMin(dots), Len(digits))

\* C24: sanitizePrice returns digits with at most one dot, the fragments
\* behind the first dot collapsed into the fraction ("12.34.56" gives
\* "12.3456"), in at most 10 characters.
C24_PriceFormat ==
    lastCall.op = "sanitizePrice" =>
        LET kept == SelectSeq(SanitizerInput, IsPriceChar)
        IN /\ \A i \in 1..Len(SanitizerOutput) : IsPriceChar(SanitizerOutput[i])
           /\ Cardinality({i \in 1..Len(SanitizerOutput) : SanitizerOutput[i] = "."}) <= 1
           /\ SanitizerOutput = SubSeq(CollapsedDots(kept), 1, Len(SanitizerOutput))
           /\ Len(SanitizerOutput) <= 10

----------------------------------------------------------------------------
(* Claims about rejected input in both forms, checked under SpecInput *)

\* the step is a sign-in rejected by detectAttack
LoginRejected == lastCall'.op = "login.attack"
\* the step is a product-form submission rejected by a check of handleSubmit
SubmitRejected == lastCall'.op = "handleSubmit" /\ ~lastCall'.ok

\* what a rejection leaves alone besides the rate-limit records: the auth
\* state, the draft and the product store (no call to it is made)
RejectionFrame ==
    /\ UNCHANGED <<authMode, user, isOwner, isLocked, lockoutMinutes, localStorage,
                   signIns, signOuts, authQueue, verifying>>
    /\ UNCHANGED <<form, editing>>
    /\ storeCall' = NoStoreCall \/ (LoginRejected /\ UNCHANGED storeCall)

----------------------------------------------------------------------------
(* Further claims about the session, checked under SpecSession *)

\* the last step applied a verifier response while a request issued after its
\* own was in flight
StaleVerifyApplied == lastCall.op = "verify.resolved" /\ lastCall.arg[3] > 0

\* C26: a verifier response is applied when it resolves, whatever else is in
\* flight: authMode, isOwner and the stored userId are those of the response
\* that resolved last, also when a request issued later is in flight.
C26_LastResolvedWins ==
    /\ VerifyApplied("owner") =>
         /\ authMode = "authenticated" /\ isOwner
         /\ HasItem(localStorage, "userId") /\ localStorage["userId"] = lastCall.arg[2]
    /\ VerifyApplied("notOwner") => authMode = "not-owner" /\ ~isOwner
    /\ VerifyApplied("throws") =>
         /\ authMode = "authenticated" /\ isOwner
         /\ HasItem(localStorage, "userId") /\ localStorage["userId"] = lastCall.arg[2]

C26_Witness ==
    /\ StaleVerifyApplied
    /\ VerifyApplied("notOwner")
    /\ authMode = "not-owner"
    /\ verifying # <<>>
    /\ HasItem(localStorage, "projectId")

\* C27: in every reachable state authMode = authenticated implies a user
\* handle that is not null, also when the sign-out notification is delivered
\* while a verification for the previous user is in flight.
C27_AuthenticatedHasUser == authMode = "authenticated" => user # NoUser

----------------------------------------------------------------------------
(* Further claims about the sign-in handlers, checked under Spec *)

\* C28: under every interleaving of handleLogin invocations for an identifier
\* the failure count of its record never exceeds maxAttempts (5).
C28_CountNeverExceedsMax ==
    \A id \in Identifiers : HasRecord(attempts, id) => attempts[id].count <= 5

----------------------------------------------------------------------------
(* Claims about the stored records of the RateLimiter, checked under SpecRL *)

\* C29: after any sequence of RateLimiter operations and clock advances every
\* stored record has a count of at least 1, and lockedUntil is set in a record
\* exactly when its count is at least maxAttempts.
C29_RecordsWellFormed ==
    \A id \in Identifiers :
        HasRecord(attempts, id) =>
            /\ attempts[id].count >= 1
            /\ attempts[id].lockedUntil # 0 <=> attempts[id].count >= maxAttempts

C29_Witness ==
    /\ now > 0
    /\ lastCall.op = "recordFailure"
    /\ lastCall.pre.count = maxAttempts
    /\ HasRecord(attempts, lastCall.id)
    /\ attempts[lastCall.id].count = maxAttempts + 1
    /\ attempts[lastCall.id].lockedUntil = now + lockoutTime
    /\ \E id \in Identifiers :
          /\ HasRecord(attempts, id)
          /\ attempts[id].count < maxAttempts
          /\ attempts[id].lockedUntil = 0

----------------------------------------------------------------------------
(* Claims about the payment status check, checked under SpecStripe *)

\* C30: whenever the session is authenticated, the payment status check
\* completes in the end: stripeConnect.loading becomes false, for every
\* project id, the empty one included.
C30_StripeCheckCompletes == (authMode = "authenticated") ~> ~stripeLoading

====
